---------------------------- MODULE Spec2Model ----------------------------
(***************************************************************************)
(* The client-side job lifecycle of the B2B sheet generator: the App       *)
(* component (view, job-scoped state, progress estimator, extraction call),*)
(* the upload form that feeds it and the controls each view renders.       *)
(*                                                                         *)
(* Optional values (null / undefined) are sequences of length 0 or 1.      *)
(* Progress is a fixed-point number in units of 1/PScale percent.          *)
(* Time is counted in estimator intervals of TickMs milliseconds.          *)
(***************************************************************************)
EXTENDS Integers, Sequences, FiniteSets, TLC

(***************************************************************************)
(* Bounds of the model                                                     *)
(***************************************************************************)
MaxTicks == 12
MaxTicksLong == 120
MaxTicksOps == 3
MaxInFlight == 2
MaxFiles == 2
MaxDestinations == 3

(***************************************************************************)
(* Program constants                                                       *)
(***************************************************************************)
TickMs == 150
DoneProgress == 100
MinIncrementMilli == 300
DecayPercent == 6
MaxFileSizeMB == 20
HighThreshold == 90
MediumThreshold == 70
PScale == 10 * 100

None == <<>>
Some(x) == <<x>>
IsSome(o) == o /= <<>>

Min(a, b) == IF a < b THEN a ELSE b
Max(a, b) == IF a > b THEN a ELSE b

(* JavaScript truthiness of a string | null value *)
Truthy(o) == IsSome(o) /\ o[1] /= ""

(***************************************************************************)
(* Progress estimator: checkpoint table and one tick                       *)
(***************************************************************************)
steps ==
  << [target |-> 10, message |-> "Uploading files...", delay |-> 0],
     [target |-> 30, message |-> "Extracting text from PDFs...", delay |-> 1500],
     [target |-> 55, message |-> "Analyzing invoice with AI...", delay |-> 4000],
     [target |-> 70, message |-> "Extracting packing list data...", delay |-> 7000],
     [target |-> 85, message |-> "Generating Excel sheets...", delay |-> 12000] >>

RECURSIVE SelectStep(_, _, _)
(* for (const step of steps) if (elapsed >= step.delay) currentStep = step *)
SelectStep(elapsedMs, i, cur) ==
  IF i > Len(steps) THEN cur
  ELSE SelectStep(elapsedMs, i + 1,
                  IF elapsedMs >= steps[i].delay THEN steps[i] ELSE cur)

(* mutant: the loop stops at the first checkpoint that qualifies *)
CurrentStepFirstMatch(elapsedMs) ==
  steps[CHOOSE i \in 1..Len(steps) :
          /\ elapsedMs >= steps[i].delay
          /\ \A j \in 1..(i - 1) : elapsedMs < steps[j].delay]

CurrentStep(elapsedMs) == SelectStep(elapsedMs, 1, steps[1])

(* mutant: the increment replaces the previous value instead of adding to it *)
NextProgressNoAccumulate(prev, target) ==
  IF prev < target * PScale
  THEN Min(target * PScale,
           Max(MinIncrementMilli,
               ((target * PScale - prev) * DecayPercent) \div 100))
  ELSE prev

(* mutant: the estimator heads for 100 whatever the checkpoint *)
NextProgressTowardDone(prev, target) ==
  IF prev < DoneProgress * PScale
  THEN Min(DoneProgress * PScale,
           prev + Max(MinIncrementMilli,
                      ((DoneProgress * PScale - prev) * DecayPercent) \div 100))
  ELSE prev

(* mutant: the increment is not capped at the target *)
NextProgressNoCap(prev, target) ==
  IF prev < target * PScale
  THEN prev + Max(MinIncrementMilli,
                  ((target * PScale - prev) * DecayPercent) \div 100)
  ELSE prev

(* the updater passed to setProgress, on fixed-point values *)
NextProgress(prev, target) ==
  IF prev < target * PScale
  THEN Min(target * PScale,
           prev + Max(MinIncrementMilli,
                      ((target * PScale - prev) * DecayPercent) \div 100))
  ELSE prev

(***************************************************************************)
(* Inputs: files offered to the upload form, option values, responses      *)
(***************************************************************************)
PdfType == "application/pdf"

FilePool ==
  { [name |-> "invoice.pdf", type |-> PdfType, sizeMB |-> 1],
    [name |-> "packing.pdf", type |-> PdfType, sizeMB |-> MaxFileSizeMB],
    [name |-> "scan.pdf", type |-> PdfType, sizeMB |-> MaxFileSizeMB + 1],
    [name |-> "notes.txt", type |-> "text/plain", sizeMB |-> 1] }

Currencies == {"auto", "USD", "INR"}
(* texts typed into the exchange-rate number field; a rate is held as a    *)
(* number of thousandths                                                   *)
RateInputs == {"", "83.5", "83.50"}

(* parseFloat on the texts above *)
ParseFloat(text) ==
  CASE text = "83.5" -> 83500
    [] text = "83.50" -> 83500

(* String(number) on the rates above *)
NumberToString(n) ==
  CASE n = 83500 -> "83.5"

DEFAULT_OPTIONS ==
  [output_currency |-> "auto", exchange_rate |-> None, sync_hs_codes |-> TRUE]

JobIds == {"job-1", "job-2"}
ErrLists == { <<>>, <<"">>, <<"page unreadable">>,
              <<"page unreadable", "no tables found">> }
WarnLists == { <<>>, <<"low confidence on HS code">> }

ExtractionResults ==
  [status : {"success", "failed"}, errors : ErrLists, warnings : WarnLists]

(* what the awaited extractDocuments call can produce: a JobStatus body    *)
(* (its result may be null), or a thrown value                             *)
ErrorMessages ==
  { "timeout of 180000ms exceeded", "" }

Outcomes ==
  [kind : {"body"}, job_id : JobIds,
   result : {None} \cup {Some(r) : r \in ExtractionResults}]
  \cup [kind : {"error"}, message : ErrorMessages]
  \cup {[kind |-> "thrown"]}

(***************************************************************************)
(* State                                                                   *)
(***************************************************************************)
VARIABLES
  view, files, lastOptions, progress, progressMessage, error, result, jobId,
  toast, progressIntervalRef,
  intervals,      \* live setInterval timers: [id, elapsed (in intervals)]
  calls,          \* extraction requests awaiting their response
  showTimers,     \* pending setTimeout(() => setView('results')) callbacks
  upFiles, upOptions, validationErrors,   \* state of the mounted upload form
  curCall,        \* history: request issued by the latest handleProcess (0: none)
  curOutcome,     \* history: the response handled for that request, if any
  submitted,      \* history: arguments of the latest submit that was no retry
  lastOp          \* history: the step taken last, and the request it concerned

appVars == <<view, files, lastOptions, progress, progressMessage, error,
             result, jobId, toast, progressIntervalRef>>
envVars == <<intervals, calls, showTimers>>
formVars == <<upFiles, upOptions, validationErrors>>
histVars == <<curCall, curOutcome, submitted, lastOp>>
vars == <<appVars, envVars, formVars, histVars>>

Op(name, call, stale) ==
  [op |-> name, call |-> call, stale |-> stale, opened |-> ""]

NoToast == [open |-> FALSE, message |-> "", severity |-> "error"]

Init ==
  /\ view = "upload"
  /\ files = <<>>
  /\ lastOptions = None
  /\ progress = 0
  /\ progressMessage = ""
  /\ error = None
  /\ result = None
  /\ jobId = ""
  /\ toast = NoToast
  /\ progressIntervalRef = 0
  /\ intervals = {}
  /\ calls = {}
  /\ showTimers = 0
  /\ upFiles = <<>>
  /\ upOptions = DEFAULT_OPTIONS
  /\ validationErrors = <<>>
  /\ curCall = 0
  /\ curOutcome = None
  /\ submitted = None
  /\ lastOp = Op("init", 0, FALSE)

(***************************************************************************)
(* Rendering: the upload form is mounted only in the upload view, so its   *)
(* state starts afresh each time that view is entered                      *)
(***************************************************************************)
FormAfter(newView) ==
  IF newView = "upload" THEN UNCHANGED formVars
  ELSE /\ upFiles' = <<>>
       /\ upOptions' = DEFAULT_OPTIONS
       /\ validationErrors' = <<>>

UploadShown == view = "upload"
ProcessButtonShown == UploadShown /\ Len(upFiles) > 0
(* mutant: the retry control is rendered whether or not there is an error *)
RetryShownAlways == view = "processing"

RetryShown == view = "processing" /\ Truthy(error)
ResultsShown == view = "results" /\ IsSome(result)
(* the "Process New Files" button, the only control wired to handleReset *)
ResetShown == ResultsShown

(***************************************************************************)
(* Progress estimator                                                      *)
(***************************************************************************)
(* mutant: clearProgressInterval() stops nothing *)
ClearedIntervalsKeepsAll == intervals

(* the timers left alive by clearProgressInterval() *)
ClearedIntervals ==
  IF progressIntervalRef /= 0
  THEN {t \in intervals : t.id /= progressIntervalRef}
  ELSE intervals

NewTimerId(live) ==
  CHOOSE i \in 1..(Cardinality(live) + 1) : \A t \in live : t.id /= i

(* mutant: the estimator starts without cancelling the stored timer *)
startProgressSimulationNoCancel ==
  LET id == NewTimerId(intervals)
  IN /\ intervals' = intervals \cup {[id |-> id, elapsed |-> 0]}
     /\ progressIntervalRef' = id

startProgressSimulation ==
  LET live == ClearedIntervals
      id == NewTimerId(live)
  IN /\ intervals' = live \cup {[id |-> id, elapsed |-> 0]}
     /\ progressIntervalRef' = id

(* one firing of the interval callback of timer t; bound caps the run      *)
Tick(t, bound) ==
  LET elapsed == t.elapsed + 1
      currentStep == CurrentStep(elapsed * TickMs)
  IN /\ elapsed <= bound
     /\ intervals' = (intervals \ {t}) \cup {[t EXCEPT !.elapsed = elapsed]}
     /\ progress' = NextProgress(progress, currentStep.target)
     /\ progressMessage' = currentStep.message
     /\ lastOp' = Op("tick", 0, FALSE)
     /\ UNCHANGED <<view, files, lastOptions, error, result, jobId, toast,
                    progressIntervalRef, calls, showTimers,
                    formVars, curCall, curOutcome, submitted>>

(***************************************************************************)
(* Extraction client                                                       *)
(***************************************************************************)
BoolStr(b) == IF b THEN "true" ELSE "false"

(* the form fields appended after the file parts *)
FormFields(options) ==
  IF IsSome(options)
  THEN <<<<"output_currency", options[1].output_currency>>>>
       \o (IF options[1].exchange_rate /= None
           THEN <<<<"exchange_rate",
                    NumberToString(options[1].exchange_rate[1])>>>>
           ELSE <<>>)
       \o <<<<"sync_hs_codes", BoolStr(options[1].sync_hs_codes)>>>>
  ELSE <<>>

NewCallId ==
  CHOOSE i \in 1..(Cardinality(calls) + 1) : \A c \in calls : c.id /= i

extractDocuments(id, fs, options) ==
  [id |-> id, files |-> fs, fields |-> FormFields(options)]

(***************************************************************************)
(* Job orchestrator                                                        *)
(***************************************************************************)
(* history record of a submit: its arguments and the request it sent *)
Submission(fs, options) ==
  [files |-> fs, options |-> options,
   fields |-> extractDocuments(0, fs, options).fields]

(* asynchronous work not yet run: awaited calls and pending timeouts *)
Pending == Cardinality(calls) + showTimers

(* mutant: a submit leaves the error of the previous job in place *)
handleProcessKeepsError(selectedFiles, options) ==
  /\ Pending < MaxInFlight
  /\ files' = selectedFiles
  /\ lastOptions' = options
  /\ view' = "processing"
  /\ progress' = 0
  /\ result' = None
  /\ jobId' = ""
  /\ startProgressSimulation
  /\ calls' = calls \cup {extractDocuments(NewCallId, selectedFiles, options)}
  /\ curCall' = NewCallId
  /\ curOutcome' = None
  /\ FormAfter("processing")
  /\ UNCHANGED <<progressMessage, toast, showTimers, error>>

handleProcess(selectedFiles, options) ==
  /\ Pending < MaxInFlight
  /\ files' = selectedFiles
  /\ lastOptions' = options
  /\ view' = "processing"
  /\ progress' = 0
  /\ error' = None
  /\ result' = None
  /\ jobId' = ""
  /\ startProgressSimulation
  /\ calls' = calls \cup {extractDocuments(NewCallId, selectedFiles, options)}
  /\ curCall' = NewCallId
  /\ curOutcome' = None
  /\ FormAfter("processing")
  /\ UNCHANGED <<progressMessage, toast, showTimers>>

RECURSIVE Join(_, _)
(* Array.prototype.join *)
Join(msgs, sep) ==
  IF Len(msgs) = 0 THEN ""
  ELSE IF Len(msgs) = 1 THEN msgs[1]
  ELSE msgs[1] \o sep \o Join(Tail(msgs), sep)

(* mutant: warnings are listed before errors *)
FailedMessageWarningsFirst(r) ==
  LET errorMsgs == r.warnings \o r.errors
  IN IF Len(errorMsgs) > 0 THEN Join(errorMsgs, " | ")
     ELSE "Extraction failed. Please try again."

FailedMessage(r) ==
  LET errorMsgs == r.errors \o r.warnings
  IN IF Len(errorMsgs) > 0 THEN Join(errorMsgs, " | ")
     ELSE "Extraction failed. Please try again."

ThrownMessage(o) ==
  IF o.kind = "error" THEN o.message ELSE "An unexpected error occurred."

IsFailedBody(o) ==
  o.kind = "body" /\ IsSome(o.result) /\ o.result[1].status = "failed"

IsThrown(o) == o.kind /= "body"

(* the response takes the success path: setProgress(100) ... setTimeout *)
IsUsable(o) == ~IsThrown(o) /\ ~IsFailedBody(o)

(* mutant: the catch block records no error *)
ErrorAfterBodyOnly(o) ==
  IF ~IsThrown(o) /\ IsFailedBody(o) THEN Some(FailedMessage(o.result[1]))
  ELSE error

ErrorAfter(o) ==
  IF IsThrown(o) THEN Some(ThrownMessage(o))
  ELSE IF IsFailedBody(o) THEN Some(FailedMessage(o.result[1]))
  ELSE error

ProgressAfter(o) == IF IsUsable(o) THEN DoneProgress * PScale ELSE progress

MessageAfter(o) == IF IsUsable(o) THEN "Done!" ELSE "Processing failed."

(* mutant: the job id of a usable response is not stored *)
JobIdAfterNotStored(o) == jobId

JobIdAfter(o) == IF IsUsable(o) THEN o.job_id ELSE jobId

(* mutant: the result of a failed body is stored as well *)
ResultAfterAnyBody(o) == IF ~IsThrown(o) THEN o.result ELSE result

ResultAfter(o) == IF IsUsable(o) THEN o.result ELSE result

(* mutant: warnings of a usable result are not surfaced *)
ToastAfterNoWarnings(o) ==
  IF IsThrown(o)
  THEN [open |-> TRUE, message |-> ThrownMessage(o), severity |-> "error"]
  ELSE IF IsFailedBody(o)
  THEN [open |-> TRUE, message |-> FailedMessage(o.result[1]),
        severity |-> "error"]
  ELSE toast

ToastAfter(o) ==
  IF IsThrown(o)
  THEN [open |-> TRUE, message |-> ThrownMessage(o), severity |-> "error"]
  ELSE IF IsFailedBody(o)
  THEN [open |-> TRUE, message |-> FailedMessage(o.result[1]),
        severity |-> "error"]
  ELSE IF IsSome(o.result) /\ Len(o.result[1].warnings) > 0
  THEN [open |-> TRUE, message |-> Join(o.result[1].warnings, " | "),
        severity |-> "warning"]
  ELSE toast

ShowTimersAfter(o) == IF IsUsable(o) THEN showTimers + 1 ELSE showTimers

(* history: the response step records the outcome it handled *)
ResponseOp(c, o) ==
  [op |-> "response", call |-> c.id, stale |-> c.id /= curCall,
   opened |-> "", outcome |-> o]

(* the continuation of handleProcess once the awaited call c settles as o *)
HandleResponse(c, o) ==
  /\ calls' = calls \ {c}
  /\ intervals' = ClearedIntervals
  /\ progressIntervalRef' = 0
  /\ error' = ErrorAfter(o)
  /\ progress' = ProgressAfter(o)
  /\ progressMessage' = MessageAfter(o)
  /\ jobId' = JobIdAfter(o)
  /\ result' = ResultAfter(o)
  /\ toast' = ToastAfter(o)
  /\ showTimers' = ShowTimersAfter(o)
  /\ curOutcome' = IF c.id = curCall THEN Some(o) ELSE curOutcome
  /\ lastOp' = ResponseOp(c, o)
  /\ UNCHANGED <<view, files, lastOptions, formVars, curCall, submitted>>

(* the callback of setTimeout(() => setView('results'), 500) *)
ShowResults ==
  /\ showTimers > 0
  /\ showTimers' = showTimers - 1
  /\ view' = "results"
  /\ FormAfter("results")
  /\ lastOp' = Op("show", 0, FALSE)
  /\ UNCHANGED <<files, lastOptions, progress, progressMessage, error, result,
                 jobId, toast, progressIntervalRef, intervals, calls,
                 curCall, curOutcome, submitted>>

(* mutant: retry replays the files with the default options *)
handleRetryDefaultOptions ==
  IF Len(files) > 0
  THEN /\ handleProcess(files, Some(DEFAULT_OPTIONS))
       /\ lastOp' = Op("retry", NewCallId, FALSE)
       /\ UNCHANGED submitted
  ELSE /\ view' = "upload"
       /\ error' = None
       /\ progress' = 0
       /\ progressMessage' = ""
       /\ FormAfter("upload")
       /\ lastOp' = Op("retry", 0, FALSE)
       /\ UNCHANGED <<files, lastOptions, result, jobId, toast,
                      progressIntervalRef, envVars, curCall, curOutcome,
                      submitted>>

handleRetry ==
  IF Len(files) > 0
  THEN /\ handleProcess(files, lastOptions)
       /\ lastOp' = Op("retry", NewCallId, FALSE)
       /\ UNCHANGED submitted
  ELSE /\ view' = "upload"
       /\ error' = None
       /\ progress' = 0
       /\ progressMessage' = ""
       /\ FormAfter("upload")
       /\ lastOp' = Op("retry", 0, FALSE)
       /\ UNCHANGED <<files, lastOptions, result, jobId, toast,
                      progressIntervalRef, envVars, curCall, curOutcome, submitted>>

DownloadTypes == {"multi", "simplified", "b2b_shipment", "result"}

getDownloadUrl(id, type) == "/api/download/" \o id \o "/" \o type

handleDownload(type) ==
  /\ lastOp' = [Op("download", 0, FALSE) EXCEPT
                  !.opened = IF jobId = "" THEN ""
                             ELSE getDownloadUrl(jobId, type)]
  /\ UNCHANGED <<appVars, envVars, formVars, curCall, curOutcome, submitted>>

handleReset ==
  /\ intervals' = ClearedIntervals
  /\ progressIntervalRef' = 0
  /\ view' = "upload"
  /\ files' = <<>>
  /\ progress' = 0
  /\ progressMessage' = ""
  /\ error' = None
  /\ result' = None
  /\ jobId' = ""
  /\ lastOptions' = None
  /\ FormAfter("upload")
  /\ curCall' = 0
  /\ curOutcome' = None
  /\ submitted' = None
  /\ lastOp' = Op("reset", 0, FALSE)
  /\ UNCHANGED <<toast, calls, showTimers>>

(* onClose of the Snackbar and of its Alert, also fired by autoHideDuration *)
CloseToast ==
  /\ toast.open
  /\ toast' = [toast EXCEPT !.open = FALSE]
  /\ lastOp' = Op("closeToast", 0, FALSE)
  /\ UNCHANGED <<view, files, lastOptions, progress, progressMessage, error,
                 result, jobId, progressIntervalRef, envVars, formVars,
                 curCall, curOutcome, submitted>>

(***************************************************************************)
(* Upload form                                                             *)
(***************************************************************************)
Batches ==
  {<<f>> : f \in FilePool} \cup {<<f, g>> : f \in FilePool, g \in FilePool}

(* mutant: the size of a file is not looked at *)
FileIsValidTypeOnly(f) == f.type = PdfType

FileIsValid(f) == f.type = PdfType /\ f.sizeMB <= MaxFileSizeMB

formatFileSize(sizeMB) == ToString(sizeMB) \o " MB"

FileError(f) ==
  IF f.type /= PdfType THEN f.name \o " - Only PDF files are accepted."
  ELSE f.name \o " - Exceeds 20 MB limit (" \o formatFileSize(f.sizeMB) \o ")"

RECURSIVE ValidOf(_)
ValidOf(batch) ==
  IF batch = <<>> THEN <<>>
  ELSE (IF FileIsValid(Head(batch)) THEN <<Head(batch)>> ELSE <<>>)
       \o ValidOf(Tail(batch))

RECURSIVE ErrorsOf(_)
ErrorsOf(batch) ==
  IF batch = <<>> THEN <<>>
  ELSE (IF FileIsValid(Head(batch)) THEN <<>> ELSE <<FileError(Head(batch))>>)
       \o ErrorsOf(Tail(batch))

(* setValidationErrors([]); validateFiles(batch); setFiles(prev ++ valid) *)
AddFiles(batch) ==
  /\ UploadShown
  /\ Len(upFiles) + Len(ValidOf(batch)) <= MaxFiles
  /\ upFiles' = upFiles \o ValidOf(batch)
  /\ validationErrors' = ErrorsOf(batch)
  /\ UNCHANGED <<upOptions, appVars, envVars, curCall, curOutcome, submitted>>

handleDrop(batch) == AddFiles(batch) /\ lastOp' = Op("form", 0, FALSE)

handleFileInputChange(batch) ==
  AddFiles(batch) /\ lastOp' = Op("form", 0, FALSE)

handleRemoveFile(i) ==
  /\ UploadShown
  /\ i \in 1..Len(upFiles)
  /\ upFiles' = SubSeq(upFiles, 1, i - 1) \o SubSeq(upFiles, i + 1, Len(upFiles))
  /\ lastOp' = Op("form", 0, FALSE)
  /\ UNCHANGED <<upOptions, validationErrors, appVars, envVars, curCall,
                 curOutcome, submitted>>

ClearAll ==
  /\ UploadShown
  /\ Len(upFiles) > 1
  /\ upFiles' = <<>>
  /\ validationErrors' = <<>>
  /\ lastOp' = Op("form", 0, FALSE)
  /\ UNCHANGED <<upOptions, appVars, envVars, curCall, curOutcome, submitted>>

DismissValidation ==
  /\ UploadShown
  /\ Len(validationErrors) > 0
  /\ validationErrors' = <<>>
  /\ lastOp' = Op("form", 0, FALSE)
  /\ UNCHANGED <<upFiles, upOptions, appVars, envVars, curCall, curOutcome, submitted>>

OptionsShown == UploadShown /\ Len(upFiles) > 0
(* mutant: the exchange-rate field is open whatever the currency *)
showExchangeRateAlways == TRUE

showExchangeRate == upOptions.output_currency /= "auto"

(* history record of a currency selection: the options it was applied to *)
CurrencyOp ==
  [op |-> "currency", call |-> 0, stale |-> FALSE, opened |-> "",
   before |-> upOptions]

(* mutant: selecting a currency never touches the exchange rate *)
SetCurrencyKeepsRate(c) ==
  /\ OptionsShown
  /\ upOptions' = [upOptions EXCEPT !.output_currency = c]
  /\ lastOp' = CurrencyOp
  /\ UNCHANGED <<upFiles, validationErrors, appVars, envVars, curCall,
                 curOutcome, submitted>>

SetCurrency(c) ==
  /\ OptionsShown
  /\ upOptions' = [upOptions EXCEPT
                     !.output_currency = c,
                     !.exchange_rate = IF c = "auto" THEN None ELSE @]
  /\ lastOp' = CurrencyOp
  /\ UNCHANGED <<upFiles, validationErrors, appVars, envVars, curCall,
                 curOutcome, submitted>>

SetExchangeRate(text) ==
  /\ OptionsShown
  /\ showExchangeRate
  /\ upOptions' = [upOptions EXCEPT
                     !.exchange_rate =
                        IF text /= "" THEN Some(ParseFloat(text)) ELSE None]
  /\ lastOp' = Op("form", 0, FALSE)
  /\ UNCHANGED <<upFiles, validationErrors, appVars, envVars, curCall,
                 curOutcome, submitted>>

SetSyncHsCodes(checked) ==
  /\ OptionsShown
  /\ upOptions' = [upOptions EXCEPT !.sync_hs_codes = checked]
  /\ lastOp' = Op("form", 0, FALSE)
  /\ UNCHANGED <<upFiles, validationErrors, appVars, envVars, curCall,
                 curOutcome, submitted>>

handleProcessFiles ==
  /\ ProcessButtonShown
  /\ handleProcess(upFiles, Some(upOptions))
  /\ submitted' = Some(Submission(upFiles, Some(upOptions)))
  /\ lastOp' = Op("submit", NewCallId, FALSE)

(***************************************************************************)
(* The application as rendered: each handler is reachable only through the *)
(* control of the view that shows it                                       *)
(***************************************************************************)
RetryClick == RetryShown /\ handleRetry
ResetClick == ResetShown /\ handleReset
DownloadClick == \E type \in DownloadTypes : ResultsShown /\ handleDownload(type)
TimerFires == \E t \in intervals : Tick(t, MaxTicks)
ResponseArrives == \E c \in calls : \E o \in Outcomes : HandleResponse(c, o)
Drop == \E b \in Batches : handleDrop(b)
Browse == \E b \in Batches : handleFileInputChange(b)
Remove == \E i \in 1..MaxFiles : handleRemoveFile(i)
ChangeCurrency == \E c \in Currencies : SetCurrency(c)
ChangeRate == \E text \in RateInputs : SetExchangeRate(text)
ChangeSync == \E b \in BOOLEAN : SetSyncHsCodes(b)

Next ==
  \/ Drop
  \/ Browse
  \/ Remove
  \/ ClearAll
  \/ DismissValidation
  \/ ChangeCurrency
  \/ ChangeRate
  \/ ChangeSync
  \/ handleProcessFiles
  \/ TimerFires
  \/ ResponseArrives
  \/ ShowResults
  \/ RetryClick
  \/ ResetClick
  \/ DownloadClick
  \/ CloseToast

Spec == Init /\ [][Next]_vars

(***************************************************************************)
(* One submission followed for the whole checkpoint table: the state right *)
(* after the upload form submitted invoice.pdf with the default options,   *)
(* then its ticks, its response, its retries and the results view          *)
(***************************************************************************)
LongFiles == <<[name |-> "invoice.pdf", type |-> PdfType, sizeMB |-> 1]>>

InitLong ==
  /\ view = "processing"
  /\ files = LongFiles
  /\ lastOptions = Some(DEFAULT_OPTIONS)
  /\ progress = 0
  /\ progressMessage = ""
  /\ error = None
  /\ result = None
  /\ jobId = ""
  /\ toast = NoToast
  /\ progressIntervalRef = 1
  /\ intervals = {[id |-> 1, elapsed |-> 0]}
  /\ calls = {extractDocuments(1, LongFiles, Some(DEFAULT_OPTIONS))}
  /\ showTimers = 0
  /\ upFiles = <<>>
  /\ upOptions = DEFAULT_OPTIONS
  /\ validationErrors = <<>>
  /\ curCall = 1
  /\ curOutcome = None
  /\ submitted = Some(Submission(LongFiles, Some(DEFAULT_OPTIONS)))
  /\ lastOp = Op("submit", 1, FALSE)

TimerFiresLong == \E t \in intervals : Tick(t, MaxTicksLong)

NextLong ==
  \/ TimerFiresLong
  \/ ResponseArrives
  \/ ShowResults
  \/ RetryClick
  \/ DownloadClick
  \/ CloseToast

SpecLong == InitLong /\ [][NextLong]_vars

(***************************************************************************)
(* The orchestrator's operations on their own: submit, retry, reset and    *)
(* download invoked in any state, without the gating of the rendered       *)
(* controls                                                                *)
(***************************************************************************)
OpsFiles ==
  { LongFiles,
    LongFiles \o <<[name |-> "packing.pdf", type |-> PdfType,
                    sizeMB |-> MaxFileSizeMB]>> }

OpsOptions ==
  { None, Some(DEFAULT_OPTIONS),
    Some([output_currency |-> "USD", exchange_rate |-> Some(83500),
          sync_hs_codes |-> FALSE]) }

SubmitOp ==
  \E fs \in OpsFiles : \E options \in OpsOptions :
    /\ handleProcess(fs, options)
    /\ submitted' = Some(Submission(fs, options))
    /\ lastOp' = Op("submit", NewCallId, FALSE)

RetryOp == handleRetry
ResetOp == handleReset
DownloadOp == \E type \in DownloadTypes : handleDownload(type)

TimerFiresOps == \E t \in intervals : Tick(t, MaxTicksOps)

(* one response of each kind *)
OpsOutcomes ==
  { [kind |-> "body", job_id |-> "job-1",
     result |-> Some([status |-> "success", errors |-> <<>>,
                      warnings |-> <<"low confidence on HS code">>])],
    [kind |-> "body", job_id |-> "job-2",
     result |-> Some([status |-> "failed", errors |-> <<"page unreadable">>,
                      warnings |-> <<>>])],
    [kind |-> "error", message |-> "timeout of 180000ms exceeded"] }

ResponseArrivesOps ==
  \E c \in calls : \E o \in OpsOutcomes : HandleResponse(c, o)

NextOps ==
  \/ SubmitOp
  \/ RetryOp
  \/ ResetOp
  \/ DownloadOp
  \/ TimerFiresOps
  \/ ResponseArrivesOps
  \/ ShowResults
  \/ CloseToast

SpecOps == Init /\ [][NextOps]_vars

(* the results timeout always fires: a pending setTimeout callback runs *)
SpecLongFair == SpecLong /\ WF_vars(ShowResults)

(* moreover every awaited call settles: the request resolves, fails or     *)
(* runs into its timeout of 180000 ms                                      *)
SpecLongLive ==
  SpecLong /\ WF_vars(ShowResults) /\ WF_vars(ResponseArrives)

(***************************************************************************)
(* Results screen: what ResultsSection derives from the stored result.     *)
(* A ConfidenceValue's value (string | number | null) is a tagged record,  *)
(* its confidence a number of hundredths; a score handed to                *)
(* getConfidenceColor is a number of 1/ConfUnit, so that the mean of five  *)
(* or of seven confidences is a whole number of units.                     *)
(***************************************************************************)
ConfUnit == 35 * 100
Hundredth == ConfUnit \div 100

JsNull == [t |-> "null"]
JsUndefined == [t |-> "undefined"]
JsStr(s) == [t |-> "string", s |-> s]
JsNum(n) == [t |-> "number", n |-> n]

(* truthiness of a string | number | null value *)
JsTruthy(x) ==
  CASE x.t = "string" -> x.s /= ""
    [] x.t = "number" -> x.n /= 0
    [] OTHER -> FALSE

(* String(value) *)
JsString(x) ==
  CASE x.t = "string" -> x.s
    [] x.t = "number" -> ToString(x.n)
    [] OTHER -> x.t

CV(value, confidence) == [value |-> value, confidence |-> confidence]

(* mutant: the boundaries belong to the lower tier *)
getConfidenceColorStrict(score) ==
  IF score > HighThreshold * Hundredth THEN "success"
  ELSE IF score > MediumThreshold * Hundredth THEN "warning"
  ELSE "error"

getConfidenceColor(score) ==
  IF score >= HighThreshold * Hundredth THEN "success"
  ELSE IF score >= MediumThreshold * Hundredth THEN "warning"
  ELSE "error"

v(cv) ==
  IF cv.value = JsNull \/ cv.value = JsUndefined \/ cv.value = JsStr("")
  THEN "-"
  ELSE JsString(cv.value)

(* texts the server may put where a number is expected *)
ValueTexts == {"", "abc", "12.5", "12abc", "1,200.50", "NaN"}

(* parseFloat on the texts above, in thousandths; None stands for NaN:     *)
(* the longest numeric prefix is converted, the rest of the text ignored   *)
parseFloat(text) ==
  CASE text = "12.5" -> Some(12500)
    [] text = "12abc" -> Some(12000)
    [] text = "1,200.50" -> Some(1000)
    [] OTHER -> None

TwoDigits(n) == IF n < 10 THEN "0" \o ToString(n) ELSE ToString(n)
ThreeDigits(n) == IF n < 100 THEN "0" \o TwoDigits(n) ELSE ToString(n)

RECURSIVE Grouped(_)
(* the en-US integer part, with a comma between groups of three digits *)
Grouped(n) ==
  IF n < 1000 THEN ToString(n)
  ELSE Grouped(n \div 1000) \o "," \o ThreeDigits(n % 1000)

(* num.toLocaleString('en-US', {minimumFractionDigits: d,                  *)
(* maximumFractionDigits: d}) of a number of thousandths, d = 2 and d = 1  *)
Fixed2(th) ==
  LET cents == (th + 5) \div 10
  IN Grouped(cents \div 100) \o "." \o TwoDigits(cents % 100)

Fixed1(th) ==
  LET tenths == (th + 50) \div 100
  IN Grouped(tenths \div 10) \o "." \o ToString(tenths % 10)

(* typeof value === 'string' ? parseFloat(value) : value *)
ToNum(value) ==
  IF value.t = "string" THEN parseFloat(value.s) ELSE Some(value.n * 1000)

IsBlank(value) ==
  value = JsNull \/ value = JsUndefined \/ value = JsStr("")

fmtCurrency(value) ==
  IF IsBlank(value) THEN "-"
  ELSE IF ToNum(value) = None THEN "-"
  ELSE "$" \o Fixed2(ToNum(value)[1])

fmtWeight(value) ==
  IF IsBlank(value) THEN "-"
  ELSE IF ToNum(value) = None THEN "-"
  ELSE Fixed1(ToNum(value)[1]) \o " kg"

(* mutant: the state of the ship-to address counts as data too *)
getReceiverAddressWithState(r) ==
  LET shipTo == r.invoice.ship_to
      hasData == \/ JsTruthy(shipTo.name.value)
                 \/ JsTruthy(shipTo.address.value)
                 \/ JsTruthy(shipTo.city.value)
                 \/ JsTruthy(shipTo.state.value)
                 \/ JsTruthy(shipTo.country.value)
  IN IF hasData THEN shipTo ELSE r.invoice.consignee

getReceiverAddress(r) ==
  LET shipTo == r.invoice.ship_to
      hasData == \/ JsTruthy(shipTo.name.value)
                 \/ JsTruthy(shipTo.address.value)
                 \/ JsTruthy(shipTo.city.value)
                 \/ JsTruthy(shipTo.country.value)
  IN IF hasData THEN shipTo ELSE r.invoice.consignee

(* packing_list.destinations || [] *)
destinations(r) ==
  IF IsSome(r.packing_list.destinations) THEN r.packing_list.destinations[1]
  ELSE <<>>

(* mutant: one destination is enough *)
hasMultiDestFromOne(r) == Len(destinations(r)) >= 1

hasMultiDest(r) == Len(destinations(r)) > 1

(* the summary row *)
stats(r) ==
  << [label |-> "Invoice", value |-> v(r.invoice.invoice_number)],
     [label |-> "Amount", value |-> fmtCurrency(r.invoice.total_amount.value)],
     [label |-> "Items", value |-> ToString(Len(r.invoice.line_items))],
     [label |-> "Boxes", value |-> v(r.packing_list.total_boxes)],
     [label |-> "Weight",
      value |-> fmtWeight(r.packing_list.total_gross_weight_kg.value)] >>
  \o (IF Len(destinations(r)) > 1
      THEN <<[label |-> "Destinations",
              value |-> ToString(Len(destinations(r)))]>>
      ELSE <<>>)

receiverFields(r) ==
  LET receiver == getReceiverAddress(r)
  IN << [label |-> "Name", value |-> v(receiver.name)],
        [label |-> "Address", value |-> v(receiver.address)],
        [label |-> "City", value |-> v(receiver.city)],
        [label |-> "State", value |-> v(receiver.state)],
        [label |-> "ZIP", value |-> v(receiver.zip_code)],
        [label |-> "Country", value |-> v(receiver.country)],
        [label |-> "Phone", value |-> v(receiver.phone)],
        [label |-> "Email", value |-> v(receiver.email)] >>

(* the card under the summary: the destinations table or the receiver *)
ReceiverCard(r) ==
  IF hasMultiDest(r)
  THEN [title |-> "Destinations",
        rows |-> [i \in 1..Len(destinations(r)) |-> destinations(r)[i].id]]
  ELSE [title |-> "Ship To / Receiver", rows |-> receiverFields(r)]

BoxesHeader(r) ==
  <<"Box #">> \o (IF hasMultiDest(r) THEN <<"Dest">> ELSE <<>>)
  \o <<"L", "W", "H", "Weight", "Items", "Conf">>

(* the Dest cell of a box row, when the column is rendered *)
DestCell(r, box) ==
  IF hasMultiDest(r)
  THEN Some(IF IsSome(box.destination_id)
            THEN [kind |-> "chip", label |-> v(box.destination_id[1])]
            ELSE [kind |-> "text", label |-> "-"])
  ELSE None

RECURSIVE reduceSum(_, _)
(* confs.reduce((s, c) => s + c, 0) *)
reduceSum(confs, acc) ==
  IF confs = <<>> THEN acc ELSE reduceSum(Tail(confs), acc + Head(confs))

(* the mean of a row's confidences, as a score *)
avg(confs) == (reduceSum(confs, 0) * Hundredth) \div Len(confs)

(* mutant: both HS codes of a line item are counted *)
lineItemConfsBothCodes(item) ==
  << item.description.confidence, item.hs_code_origin.confidence,
     item.hs_code_destination.confidence,
     item.quantity.confidence, item.unit_price_usd.confidence,
     item.total_price_usd.confidence, item.unit_weight_kg.confidence,
     item.igst_percent.confidence >>

lineItemConfs(item) ==
  << item.description.confidence, item.hs_code_origin.confidence,
     item.quantity.confidence, item.unit_price_usd.confidence,
     item.total_price_usd.confidence, item.unit_weight_kg.confidence,
     item.igst_percent.confidence >>

boxConfs(box) ==
  << box.box_number.confidence, box.length_cm.confidence,
     box.width_cm.confidence, box.height_cm.confidence,
     box.gross_weight_kg.confidence >>

(* the confidence chip of a table row *)
ConfChip(confs) == [score |-> avg(confs), color |-> getConfidenceColor(avg(confs))]

(* the confidence badge of the header *)
HeaderChip(r) ==
  [score |-> r.overall_confidence * Hundredth,
   color |-> getConfidenceColor(r.overall_confidence * Hundredth)]

(***************************************************************************)
(* Results the server may return, each family varying one part             *)
(***************************************************************************)
Text(s) == CV(JsStr(s), 95)
Blank == CV(JsNull, 0)

Consignee ==
  [name |-> Text("Acme Imports"), address |-> Text("1 Dock Road"),
   city |-> Text("Mumbai"), state |-> Text("MH"), zip_code |-> Text("400001"),
   country |-> Text("IN"), phone |-> Blank, email |-> Blank]

EmptyAddress ==
  [name |-> Blank, address |-> Blank, city |-> Blank, state |-> Blank,
   zip_code |-> Blank, country |-> Blank, phone |-> Blank, email |-> Blank]

KeyValues == {JsNull, JsStr(""), JsStr("Globex")}
OtherValues == {JsNull, JsStr("x")}

ShipTos ==
  { [name |-> CV(n, 90), address |-> CV(a, 90), city |-> CV(c, 90),
     country |-> CV(co, 90), state |-> CV(st, 90), zip_code |-> CV(z, 90),
     phone |-> CV(ph, 90), email |-> CV(e, 90)] :
      n \in KeyValues, a \in KeyValues, c \in KeyValues, co \in KeyValues,
      st \in OtherValues, z \in OtherValues, ph \in OtherValues,
      e \in OtherValues }

ConfLevels == {0, 69, 70, 89, 90, 100}

ItemFields ==
  { "description", "hs_code_origin", "hs_code_destination", "quantity",
    "unit_price_usd", "total_price_usd", "unit_weight_kg", "igst_percent" }

(* line items whose fields share one confidence, but for one field *)
LineItems ==
  { [f \in ItemFields |-> CV(JsStr("x"), IF f = g THEN d ELSE b)] :
      b \in ConfLevels, d \in ConfLevels, g \in ItemFields }

BoxFields ==
  { "box_number", "length_cm", "width_cm", "height_cm", "gross_weight_kg",
    "net_weight_kg" }

DestIds == <<"D1", "D2", "D3", "D4">>

DestIdValues ==
  { None, Some(Blank), Some(Text("")), Some(Text("D1")), Some(Text("D2")),
    Some(Text("D4")), Some(Text("d1")), Some(Text("D9")) }

BoxWith(confOf, destinationId) ==
  [box_number |-> CV(JsNum(1), confOf["box_number"]),
   length_cm |-> CV(JsNum(40), confOf["length_cm"]),
   width_cm |-> CV(JsNum(30), confOf["width_cm"]),
   height_cm |-> CV(JsNum(20), confOf["height_cm"]),
   gross_weight_kg |-> CV(JsNum(12), confOf["gross_weight_kg"]),
   net_weight_kg |-> CV(JsNum(11), confOf["net_weight_kg"]),
   items |-> <<>>,
   destination_id |-> destinationId,
   receiver |-> None]

BoxConfs ==
  { [f \in BoxFields |-> IF f = g THEN d ELSE b] :
      b \in ConfLevels, d \in ConfLevels, g \in BoxFields }

PlainBox == BoxWith([f \in BoxFields |-> 95], Some(Text("D1")))

Destination(id) == [id |-> id, name |-> Text("Depot " \o id), address |-> Consignee]

(* a missing list, and the lists of the first 0..MaxDestinations destinations *)
DestLists ==
  {None} \cup { Some([i \in 1..n |-> Destination(DestIds[i])]) :
                  n \in 0..MaxDestinations }

ResultWith(overall, consignee, shipTo, lineItems, boxes, dests) ==
  [job_id |-> "job-1", status |-> "success", overall_confidence |-> overall,
   invoice |->
     [invoice_number |-> Text("INV-7"), invoice_date |-> Text("2024-05-01"),
      currency |-> Text("USD"), total_amount |-> CV(JsNum(1200), 95),
      exporter |-> EmptyAddress, consignee |-> consignee, ship_to |-> shipTo,
      ior |-> EmptyAddress, line_items |-> lineItems],
   packing_list |->
     [total_boxes |-> CV(JsNum(Len(boxes)), 95),
      total_net_weight_kg |-> CV(JsNum(11), 95),
      total_gross_weight_kg |-> CV(JsNum(12), 95),
      boxes |-> boxes, destinations |-> dests],
   warnings |-> <<>>, errors |-> <<>>]

ReceiverCases ==
  { ResultWith(95, c, s, <<>>, <<>>, Some(<<>>)) :
      c \in {Consignee, EmptyAddress}, s \in ShipTos }

DestinationCases ==
  { ResultWith(95, Consignee, EmptyAddress, <<>>,
               <<BoxWith([f \in BoxFields |-> 95], id)>>, ds) :
      id \in DestIdValues, ds \in DestLists }
  \cup { ResultWith(95, Consignee, EmptyAddress, <<>>, <<>>, ds) :
           ds \in DestLists }

ConfidenceCases ==
  { ResultWith(95, Consignee, EmptyAddress, <<it>>, <<PlainBox>>, Some(<<>>)) :
      it \in LineItems }
  \cup { ResultWith(95, Consignee, EmptyAddress, <<>>,
                    <<BoxWith(cf, Some(Text("D1")))>>, Some(<<>>)) :
           cf \in BoxConfs }
  \cup { ResultWith(o, Consignee, EmptyAddress, <<>>, <<>>, Some(<<>>)) :
           o \in 0..100 }

ShownValues ==
  {JsNull, JsUndefined, JsNum(0), JsNum(1200)} \cup {JsStr(t) : t \in ValueTexts}

(* results whose invoice number, amount, box count and weight vary *)
ValueCases ==
  { [ResultWith(95, Consignee, EmptyAddress, <<>>, <<>>, Some(<<>>)) EXCEPT
       !.invoice.invoice_number = CV(x, 95),
       !.invoice.total_amount = CV(x, 95),
       !.packing_list.total_boxes = CV(y, 95),
       !.packing_list.total_gross_weight_kg = CV(y, 95)] :
      x \in ShownValues, y \in ShownValues }

ShownResults ==
  ReceiverCases \cup DestinationCases \cup ConfidenceCases \cup ValueCases

(***************************************************************************)
(* One submission answered by a usable result and shown: its response, the *)
(* results view, the downloads and the reset                               *)
(***************************************************************************)
ResponseArrivesShown ==
  \E c \in calls : \E r \in ShownResults :
    HandleResponse(c, [kind |-> "body", job_id |-> r.job_id,
                       result |-> Some(r)])

NextShown ==
  \/ ResponseArrivesShown
  \/ ShowResults
  \/ DownloadClick
  \/ ResetClick

SpecShown == InitLong /\ [][NextShown]_vars

(***************************************************************************)
(* Properties                                                              *)
(***************************************************************************)
HasOutcome == IsSome(curOutcome)
Outcome == curOutcome[1]
OutcomeFailed ==
  /\ HasOutcome
  /\ Outcome.kind = "body"
  /\ IsSome(Outcome.result)
  /\ Outcome.result[1].status = "failed"
OutcomeThrown == HasOutcome /\ Outcome.kind /= "body"
OutcomeSuccess == HasOutcome /\ Outcome.kind = "body" /\ ~OutcomeFailed

RECURSIVE Glue(_, _)
(* the first n messages, each but the first preceded by " | " *)
Glue(msgs, n) ==
  IF n = 0 THEN ""
  ELSE IF n = 1 THEN msgs[1]
  ELSE Glue(msgs, n - 1) \o " | " \o msgs[n]

(* C1: applying the response of a request that is no longer the current    *)
(* one (a reset or a later submit came in between) leaves view, progress,  *)
(* error, result, job id and the estimator timer as they were.             *)
C1_StaleResponseIgnored ==
  [][(lastOp'.op = "response" /\ lastOp'.stale)
       => UNCHANGED <<view, progress, error, result, jobId,
                      progressIntervalRef, intervals>>]_vars

(* C2: from a reset until the next submit the orchestrator is in Upload    *)
(* with empty job id, null result, null error, progress 0 and no live      *)
(* estimator, whatever responses or timers of the earlier job fire.        *)
C2_ResetHolds ==
  curCall = 0 =>
    /\ view = "upload"
    /\ jobId = ""
    /\ result = None
    /\ error = None
    /\ progress = 0
    /\ intervals = {}

(* C3: at most one extraction call is outstanding, and no control that     *)
(* submits (process button, retry, reset) is shown while one is.           *)
C3_SingleOutstanding ==
  /\ Cardinality(calls) <= 1
  /\ (ProcessButtonShown \/ RetryShown \/ ResultsShown) => calls = {}

C3_Witness == Cardinality(calls) = 1 /\ lastOp.op = "retry"

(* C4: within a run (no submit, retry or reset in between) progress never  *)
(* decreases, and it never exceeds 100.                                    *)
C4_ProgressMonotone ==
  /\ [](progress <= 100 * PScale)
  /\ [][lastOp'.op \notin {"submit", "retry", "reset"}
          => progress' >= progress]_vars

C4_Witness == lastOp.op = "tick" /\ progress = 85 * PScale

C6_FailedStaysInError ==
  OutcomeFailed =>
    /\ view = "processing"
    /\ intervals = {}
    /\ RetryShown
    /\ result = None
    /\ jobId = ""
    /\ progress < 100 * PScale
    /\ showTimers = 0

(* C7: for a failed result the error is the errors followed by the         *)
(* warnings, joined by " | ", or the generic message when both are empty;  *)
(* errors = ["page unreadable"], warnings = [] gives "page unreadable".    *)
C7_FailedMessageExact ==
  OutcomeFailed =>
    LET all == Outcome.result[1].errors \o Outcome.result[1].warnings
    IN /\ error = Some(IF all = <<>>
                       THEN "Extraction failed. Please try again."
                       ELSE Glue(all, Len(all)))
       /\ (all = <<"page unreadable">> => error = Some("page unreadable"))

C7_Witness ==
  /\ OutcomeFailed
  /\ Outcome.result[1].errors = <<"page unreadable", "no tables found">>
  /\ Outcome.result[1].warnings = <<"low confidence on HS code">>
  /\ error = Some("page unreadable | no tables found | low confidence on HS code")

C8_Pre ==
  /\ OutcomeSuccess
  /\ IsSome(Outcome.result)
  /\ Len(Outcome.result[1].warnings) > 0

C8_State ==
  C8_Pre =>
    /\ progress = 100 * PScale
    /\ result = Outcome.result
    /\ jobId = Outcome.job_id
    /\ error = None
    /\ toast.severity = "warning"
    /\ toast.message = Glue(Outcome.result[1].warnings,
                            Len(Outcome.result[1].warnings))
    /\ (lastOp.op = "response" => toast.open)
    /\ \/ view = "results"
       \/ view = "processing" /\ showTimers = 1

(* C8: a success carrying warnings sets progress to 100, stores result and *)
(* job id, opens a warning notice with the warnings while error stays      *)
(* null, and the view then becomes Results once the delay has passed.      *)
C8_SuccessWithWarnings ==
  /\ []C8_State
  /\ (C8_Pre ~> view = "results")

C8_Witness == C8_Pre /\ view = "results" /\ toast.open

(* C9: after a transport failure the estimator is stopped, the error is    *)
(* the failure text, or the generic message when there is no text, the     *)
(* view stays Processing with the retry control shown, and neither result  *)
(* nor job id is set.                                                      *)
C9_TransportFailure ==
  OutcomeThrown =>
    /\ intervals = {}
    /\ view = "processing"
    /\ RetryShown
    /\ result = None
    /\ jobId = ""
    /\ error = Some(IF Outcome.kind = "error" /\ Outcome.message /= ""
                    THEN Outcome.message
                    ELSE "An unexpected error occurred.")

(* C10: retry with stored files issues exactly one new call, with the      *)
(* files and the request fields of the original submission, and goes       *)
(* straight to Processing; with no stored files it issues no call, returns *)
(* to Upload and clears error, progress and message.                       *)
C10_RetryReplays ==
  [][lastOp'.op = "retry" =>
       IF Len(files) > 0
       THEN /\ Cardinality(calls' \ calls) = 1
            /\ calls \subseteq calls'
            /\ \A c \in calls' \ calls :
                 /\ c.files = submitted[1].files
                 /\ c.fields = submitted[1].fields
            /\ files' = submitted[1].files
            /\ lastOptions' = submitted[1].options
            /\ view' = "processing"
       ELSE /\ calls' = calls
            /\ view' = "upload"
            /\ error' = None
            /\ progress' = 0
            /\ progressMessage' = ""]_vars

C10_Witness ==
  /\ lastOp.op = "retry"
  /\ lastOp.call /= 0
  /\ lastOptions /= Some(DEFAULT_OPTIONS)
  /\ \E c \in calls : c.id = lastOp.call /\ Len(c.fields) = 3

CurrentCallPending == \E c \in calls : c.id = curCall

(* C11: an estimator timer is live only while the request of the current   *)
(* job is outstanding: handling a response (success, failed result or      *)
(* transport failure) and reset leave no timer live, and a tick changes    *)
(* progress and the phase message only for a job whose request is pending. *)
C11_NoDanglingTimer ==
  /\ [](intervals /= {} => curCall /= 0 /\ CurrentCallPending)
  /\ [][lastOp'.op \in {"response", "reset"} => intervals' = {}]_vars
  /\ [][(progress' /= progress \/ progressMessage' /= progressMessage)
          /\ lastOp'.op = "tick" => curCall /= 0 /\ CurrentCallPending]_vars

C11_Witness ==
  /\ lastOp.op = "response"
  /\ ~lastOp.stale
  /\ progress > 0
  /\ progress < 100 * PScale
  /\ intervals = {}
  /\ progressIntervalRef = 0

(* C12: at most one estimator timer is live, and it is the stored one;     *)
(* every start of the estimator (submit, retry) leaves exactly the timer   *)
(* it created, whatever timer was live before.                             *)
C12_AtMostOneTimer ==
  /\ [](Cardinality(intervals) <= 1)
  /\ [](\A t \in intervals : t.id = progressIntervalRef)
  /\ [][lastOp'.op \in {"submit", "retry"} /\ lastOp'.call /= 0
          => intervals' = {[id |-> progressIntervalRef', elapsed |-> 0]}]_vars

C12_Witness ==
  /\ lastOp.op \in {"submit", "retry"}
  /\ Cardinality(calls) = 2
  /\ Cardinality(intervals) = 1
  /\ progress = 0
  /\ progressMessage /= ""

(* C13: in Results and in the error sub-state of Processing a reset        *)
(* control is shown, and outside Upload there is always a way forward: a   *)
(* request or a timeout still pending, or a retry or reset control.        *)
C13_ResetAvailable ==
  /\ (view = "results" \/ (view = "processing" /\ IsSome(error))) => ResetShown
  /\ view /= "upload" =>
        calls /= {} \/ showTimers > 0 \/ RetryShown \/ ResetShown

Shown == result[1]
NonEmptyValue(cv) == cv.value /= JsNull /\ cv.value /= JsStr("")
SameKeyFields(a, b) ==
  /\ a.name = b.name
  /\ a.address = b.address
  /\ a.city = b.city
  /\ a.country = b.country

C16_MultiDestination ==
  ResultsShown =>
    LET given == Shown.packing_list.destinations
        multi == given /= None /\ Len(given[1]) >= 2
        boxes == Shown.packing_list.boxes
    IN /\ (ReceiverCard(Shown).title = "Destinations") <=> multi
       /\ (ReceiverCard(Shown).title = "Ship To / Receiver") <=> ~multi
       /\ (\E i \in 1..Len(BoxesHeader(Shown)) :
             BoxesHeader(Shown)[i] = "Dest") <=> multi
       /\ \A i \in 1..Len(boxes) : IsSome(DestCell(Shown, boxes[i])) <=> multi

C16_Witness ==
  /\ ResultsShown
  /\ Len(destinations(Shown)) = 2
  /\ Len(Shown.packing_list.boxes) = 1
  /\ ReceiverCard(Shown).title = "Destinations"
  /\ BoxesHeader(Shown)[2] = "Dest"

(* C17: in multi-destination mode the Dest cell of a box shows the id of   *)
(* the Destination whose id equals the box's destination_id value, and the *)
(* placeholder of an unresolved link when no Destination has that id.      *)
C17_BoxDestinationLink ==
  (ResultsShown /\ hasMultiDest(Shown)) =>
    \A i \in 1..Len(Shown.packing_list.boxes) :
      LET box == Shown.packing_list.boxes[i]
          cell == DestCell(Shown, box)[1]
          matched ==
            /\ IsSome(box.destination_id)
            /\ \E j \in 1..Len(destinations(Shown)) :
                 JsStr(destinations(Shown)[j].id) = box.destination_id[1].value
      IN IF matched
         THEN cell = [kind |-> "chip", label |-> box.destination_id[1].value.s]
         ELSE cell.label = "-"

(* C18: the score of a row's confidence chip is the unweighted mean of the *)
(* row's designated confidences (line item: description, origin HS code,   *)
(* quantity, unit price, total price, unit weight, tax percent; box: box   *)
(* number, length, width, height, gross weight) and lies within [0,1].     *)
C18_RowConfidenceMean ==
  ResultsShown =>
    /\ \A i \in 1..Len(Shown.invoice.line_items) :
         LET it == Shown.invoice.line_items[i]
             total == it.description.confidence + it.hs_code_origin.confidence
                      + it.quantity.confidence + it.unit_price_usd.confidence
                      + it.total_price_usd.confidence
                      + it.unit_weight_kg.confidence
                      + it.igst_percent.confidence
             chip == ConfChip(lineItemConfs(it))
         IN /\ 7 * 100 * chip.score = ConfUnit * total
            /\ chip.score >= 0
            /\ chip.score <= ConfUnit
    /\ \A i \in 1..Len(Shown.packing_list.boxes) :
         LET box == Shown.packing_list.boxes[i]
             total == box.box_number.confidence + box.length_cm.confidence
                      + box.width_cm.confidence + box.height_cm.confidence
                      + box.gross_weight_kg.confidence
             chip == ConfChip(boxConfs(box))
         IN /\ 5 * 100 * chip.score = ConfUnit * total
            /\ chip.score >= 0
            /\ chip.score <= ConfUnit

C18_Witness ==
  /\ ResultsShown
  /\ Len(Shown.invoice.line_items) = 1
  /\ Shown.invoice.line_items[1].hs_code_destination.confidence = 0
  /\ Shown.invoice.line_items[1].hs_code_origin.confidence = 100
  /\ ConfChip(lineItemConfs(Shown.invoice.line_items[1])).score = ConfUnit

ShownChips ==
  {HeaderChip(Shown)}
  \cup { ConfChip(lineItemConfs(Shown.invoice.line_items[i])) :
           i \in 1..Len(Shown.invoice.line_items) }
  \cup { ConfChip(boxConfs(Shown.packing_list.boxes[i])) :
           i \in 1..Len(Shown.packing_list.boxes) }

(* C19: a chip is success exactly when its score is at least 0.90, warning *)
(* exactly when the score is at least 0.70 and below 0.90, and error       *)
(* exactly when it is below 0.70; every score gets one of the three.       *)
C19_ConfidenceTiers ==
  ResultsShown =>
    \A chip \in ShownChips :
      /\ chip.color \in {"success", "warning", "error"}
      /\ (chip.color = "success") <=> (100 * chip.score >= 90 * ConfUnit)
      /\ (chip.color = "warning") <=>
           (100 * chip.score >= 70 * ConfUnit /\ 100 * chip.score < 90 * ConfUnit)
      /\ (chip.color = "error") <=> (100 * chip.score < 70 * ConfUnit)

C19_Witness ==
  /\ ResultsShown
  /\ Shown.overall_confidence = 90
  /\ HeaderChip(Shown).color = "success"

(* C20: right after a currency selection the exchange rate is null if     *)
(* auto was selected, whatever rate was set before, and is the rate held   *)
(* before the selection if USD or INR was selected.                        *)
C20_AutoClearsRate ==
  lastOp.op = "currency" =>
    upOptions.exchange_rate =
      IF upOptions.output_currency = "auto" THEN None
      ELSE lastOp.before.exchange_rate

C20_Witness ==
  /\ lastOp.op = "currency"
  /\ lastOp.before.output_currency = "INR"
  /\ lastOp.before.exchange_rate = Some(83500)
  /\ upOptions.output_currency = "auto"
  /\ upOptions.exchange_rate = None

FieldNames(c) == {c.fields[i][1] : i \in 1..Len(c.fields)}
FieldValues(c, name) ==
  {c.fields[i][2] : i \in {j \in 1..Len(c.fields) : c.fields[j][1] = name}}

(* C21: no extraction request carries an exchange_rate field together with *)
(* output_currency = auto, whether it was sent by a submit or replayed by  *)
(* a retry, and the options stored for retry never hold a rate with auto.  *)
C21_RateOnlyWithCurrency ==
  /\ \A c \in calls :
       "exchange_rate" \in FieldNames(c)
         => "auto" \notin FieldValues(c, "output_currency")
  /\ (IsSome(lastOptions) /\ lastOptions[1].output_currency = "auto")
       => lastOptions[1].exchange_rate = None

C21_Witness ==
  /\ lastOp.op = "retry"
  /\ \E c \in calls :
       /\ c.id = lastOp.call
       /\ FieldValues(c, "output_currency") = {"INR"}
       /\ FieldValues(c, "exchange_rate") = {"83.5"}

AcceptableList(fs) ==
  \A i \in 1..Len(fs) : fs[i].type = "application/pdf" /\ fs[i].sizeMB <= 20

(* C22: the list held by the upload form only ever holds PDF files of at   *)
(* most 20 MB, and the list handed to submit (stored for retry and sent    *)
(* with the request) is non-empty and made of such files only.             *)
C22_ValidatedInput ==
  /\ AcceptableList(upFiles)
  /\ \A c \in calls : Len(c.files) > 0 /\ AcceptableList(c.files)
  /\ IsSome(submitted) =>
       Len(submitted[1].files) > 0 /\ AcceptableList(submitted[1].files)
  /\ view /= "upload" => Len(files) > 0 /\ AcceptableList(files)

C22_Witness ==
  /\ lastOp.op = "submit"
  /\ \E c \in calls :
       /\ c.id = lastOp.call
       /\ Len(c.files) = 2
       /\ c.files[2].sizeMB = MaxFileSizeMB
       /\ files = c.files

(* the texts that are numbers *)
NumericTexts == {"12.5"}
Absent(value) == value.t \in {"null", "undefined"} \/ value = JsStr("")
NotANumber(value) ==
  Absent(value) \/ (value.t = "string" /\ value.s \notin NumericTexts)
StatValue(label) ==
  LET i == CHOOSE j \in 1..Len(stats(Shown)) : stats(Shown)[j].label = label
  IN stats(Shown)[i].value

(* C23: in the summary row an absent invoice number or box count is shown  *)
(* as "-", an amount or weight that is absent or is a text that is not a   *)
(* number is shown as "-", and no shown value is "NaN", "null" or          *)
(* "undefined" unless the server sent that very text.                      *)
C23_Placeholders ==
  ResultsShown =>
    LET inv == Shown.invoice
        pl == Shown.packing_list
    IN /\ Absent(inv.invoice_number.value) => StatValue("Invoice") = "-"
       /\ Absent(pl.total_boxes.value) => StatValue("Boxes") = "-"
       /\ NotANumber(inv.total_amount.value) => StatValue("Amount") = "-"
       /\ NotANumber(pl.total_gross_weight_kg.value) => StatValue("Weight") = "-"
       /\ \A i \in 1..Len(stats(Shown)) :
            /\ stats(Shown)[i].value \notin {"$NaN", "NaN kg", "undefined"}
            /\ stats(Shown)[i].value \in {"NaN", "null"} =>
                 JsStr(stats(Shown)[i].value)
                   \in {inv.invoice_number.value, pl.total_boxes.value}

(* C24: the step of a submit ends in view Processing with progress 0,      *)
(* error null, result null and job id empty, the files and options of the  *)
(* submit stored, exactly one estimator timer live (just started) and      *)
(* exactly one request added, carrying those files and options.            *)
C24_SubmitEffects ==
  [][lastOp'.op = "submit" =>
       /\ view' = "processing"
       /\ progress' = 0
       /\ error' = None
       /\ result' = None
       /\ jobId' = ""
       /\ files' = submitted'[1].files
       /\ lastOptions' = submitted'[1].options
       /\ Cardinality(intervals') = 1
       /\ \A t \in intervals' : t.elapsed = 0 /\ t.id = progressIntervalRef'
       /\ calls \subseteq calls'
       /\ Cardinality(calls' \ calls) = 1
       /\ \A c \in calls' \ calls :
            /\ c.id = curCall'
            /\ c.files = submitted'[1].files
            /\ c.fields = submitted'[1].fields]_vars

C24_Witness ==
  /\ lastOp.op = "submit"
  /\ toast.open
  /\ toast.severity = "error"
  /\ progressMessage = "Processing failed."
  /\ error = None
  /\ view = "processing"
  /\ Cardinality(calls) = 1

(* the table entry a tick at the given elapsed time has to select *)
Qualifying(elapsedMs) == {i \in 1..Len(steps) : steps[i].delay <= elapsedMs}
Selected(elapsedMs) ==
  IF Qualifying(elapsedMs) = {} THEN 1
  ELSE CHOOSE i \in Qualifying(elapsedMs) :
         \A j \in Qualifying(elapsedMs) :
           \/ steps[j].delay < steps[i].delay
           \/ (steps[j].delay = steps[i].delay /\ j <= i)

(* C25: a tick sets the phase label to the label of the checkpoint with    *)
(* the highest threshold not above the time elapsed since the start (the   *)
(* later entry on ties, the first entry when none qualifies).              *)
C25_CheckpointSelection ==
  [][lastOp'.op = "tick" =>
       \E t \in intervals' :
         /\ t.id = progressIntervalRef
         /\ progressMessage' = steps[Selected(t.elapsed * TickMs)].message]_vars

C25_Witness ==
  /\ lastOp.op = "tick"
  /\ \E t \in intervals : t.elapsed * TickMs = 12000
  /\ progressMessage = "Generating Excel sheets..."

(* C26: a tick with selected target T leaves progress unchanged when it is *)
(* at or above T, and otherwise raises it by the larger of 0.3 and 6% of   *)
(* the gap to T (rounded down to the unit of progress), but not past T; so *)
(* progress never decreases on a tick and, while a request is in flight,   *)
(* never exceeds 85.                                                       *)
C26_TickIncrement ==
  /\ [](calls /= {} => progress <= 85 * PScale)
  /\ [][lastOp'.op = "tick" =>
          \E t \in intervals' :
            LET goal == steps[Selected(t.elapsed * TickMs)].target * PScale
                gap == goal - progress
                step == progress' - progress
            IN /\ progress' >= progress
               /\ progress >= goal => progress' = progress
               /\ progress < goal =>
                    /\ progress' <= goal
                    /\ progress' > progress
                    /\ \/ step = gap
                       \/ /\ step < gap
                          /\ step >= 3 * (PScale \div 10)
                          /\ 100 * step >= 6 * gap - 99
                          /\ \/ step = 3 * (PScale \div 10)
                             \/ 100 * step <= 6 * gap]_vars

C26_Witness ==
  /\ lastOp.op = "tick"
  /\ calls /= {}
  /\ progress = 85 * PScale
  /\ \E t \in intervals : t.elapsed > 118

(* C27: a download step changes nothing and opens nothing while the job id  *)
(* is empty, and otherwise opens /api/download/{jobId}/{type} for the       *)
(* stored job id; the stored job id and the stored result change only       *)
(* together, either both cleared or both taken from one usable response,    *)
(* so in the results view the id used is that of the response that          *)
(* produced the displayed result.                                           *)
C27_DownloadNeedsJobId ==
  /\ [][lastOp'.op = "download" =>
          /\ UNCHANGED <<appVars, envVars, formVars>>
          /\ jobId = "" => lastOp'.opened = ""
          /\ jobId /= "" =>
               \E type \in DownloadTypes :
                 lastOp'.opened = "/api/download/" \o jobId \o "/" \o type]_vars
  /\ [][(jobId' /= jobId \/ result' /= result) =>
          \/ jobId' = "" /\ result' = None
          \/ /\ lastOp'.op = "response"
             /\ lastOp'.outcome.kind = "body"
             /\ jobId' = lastOp'.outcome.job_id
             /\ result' = lastOp'.outcome.result]_vars
  /\ [](view = "results" /\ IsSome(result) => jobId /= "")

C27_Witness ==
  /\ lastOp.op = "download"
  /\ view = "results"
  /\ IsSome(result)
  /\ jobId = "job-1"
  /\ lastOp.opened = "/api/download/job-1/simplified"

C27_NoOpReached ==
  lastOp.op = "download" /\ jobId = "" /\ lastOp.opened = ""

(* C28: whenever the view is results, a result and a non-empty job id are   *)
(* stored, so the results screen is rendered.                               *)
C28_ResultsRendered ==
  view = "results" => IsSome(result) /\ jobId /= "" /\ ResultsShown

(* the state the claim excludes: the results view with nothing to render *)
C28_BlankResults ==
  /\ view = "results"
  /\ result = None
  /\ IsSome(curOutcome)
  /\ curOutcome[1].kind = "body"
  /\ curOutcome[1].result = None

(* C29: whenever an error is recorded, the view is processing, no interval  *)
(* timer is live, no request of the current submission is outstanding, no  *)
(* result and no job id are stored, and progress is below 100.              *)
C29_ErrorState ==
  error /= None =>
    /\ view = "processing"
    /\ intervals = {}
    /\ progressIntervalRef = 0
    /\ \A c \in calls : c.id /= curCall
    /\ result = None
    /\ jobId = ""
    /\ progress < DoneProgress * PScale

C29_Witness ==
  /\ error = Some("page unreadable | no tables found")
  /\ lastOp.op = "response"
  /\ lastOp.outcome.kind = "body"
  /\ progress > 0
  /\ files /= <<>>

(* C30: every failure path stores a non-empty error message, so after a     *)
(* failure the error alert and the retry control are displayed.             *)
C30_ErrorMessageShown ==
  error /= None => error[1] /= "" /\ Truthy(error) /\ RetryShown

(* the state the claim excludes: a failure recorded with an empty message *)
C30_EmptyMessage ==
  /\ error = Some("")
  /\ view = "processing"
  /\ lastOp.op = "response"
  /\ ~RetryShown
  /\ calls = {}

=============================================================================
